---------------------------- MODULE Spec2Model ----------------------------
(***************************************************************************)
(* bitcesque: an append-only log of checksummed documents (the data file), *)
(* an in-memory index kToPos from key to the (offset, length) of its value *)
(* in the file, a key snapshot written at Close, and a reader/writer lock. *)
(*                                                                         *)
(* Bytes are 0..255 and a file is a sequence of bytes.  Positions in a     *)
(* file are 0-based as in the source; At reads one.  A uint32 is held as   *)
(* its two 16-bit halves [lo, hi], because the integers of the model       *)
(* checker are 32-bit signed; ToInt turns one into an integer when it is   *)
(* below 2^31.                                                             *)
(***************************************************************************)
EXTENDS Integers, Sequences, FiniteSets, TLC

VARIABLES
    disk,        \* bytes of the data file at d.location
    keyfile,     \* bytes of the snapshot at d.location + ".keys"
    h,           \* "open": the process holds a handle; "closed": it holds none
    kToPos,      \* DB.kToPos
    filledSize,  \* DB.filledSize
    err,         \* what the last constructor or Close/Consolidate returned
    ret,         \* what the last Get / Contains / Size returned
    origin,      \* the constructor that made the handle
    last,        \* history: the last call that was not a read, and the one before
    hist,        \* history: per key, the latest Upsert value not followed by Remove
    pre,         \* history: the mapping Get exposed just before the last Close
                 \* or Consolidate
    hurt,        \* history: the damage done to the data file, if any
    calls,       \* history: the mutating calls made on the handle since it was made
    nops,        \* number of calls made so far
    io,          \* history: the step of the last call that the system failed,
                 \* with the handle as it was before that call
    pc,          \* per goroutine: where it is in its call
    held,        \* DB.mutex: goroutines holding the lock, with the mode
    wwait,       \* DB.mutex: the writer that announced itself and waits for readers
    rwait,       \* DB.mutex: readers blocked behind an announced writer
    chan,        \* the channel handed to KeyChan / ValChan / keyAndValChan
    snap,        \* history: index and file when the streaming goroutine took the lock
    ilog,        \* history: mutations in the order they changed the index
    flog         \* history: mutations in the order their records reached the file

seqVars  == <<disk, keyfile, h, kToPos, filledSize, err, ret, origin, last,
              hist, pre, hurt, calls, nops, io>>
concVars == <<pc, held, wwait, rwait, chan, snap, ilog, flog>>
vars     == <<disk, keyfile, h, kToPos, filledSize, err, ret, origin, last,
              hist, pre, hurt, calls, nops, io, pc, held, wwait, rwait, chan, snap,
              ilog, flog>>

-----------------------------------------------------------------------------
(* Bounds of the model.                                                    *)

\* calls (other than reads) made in one behaviour of the sequential model
MaxOps == 4
\* most bytes one damage of the data file cuts off or alters
MaxCut == 14

\* calls started in one behaviour of the concurrent model
MaxCalls == 3
\* calls started in one behaviour of the model of a stream and its consumer
MaxLive == 5
\* Upsert and Remove calls among them
MaxMutations == 3
\* capacity of the channel handed to KeyChan / ValChan / keyAndValChan
ChanCap == 1

Keys == {<<1>>, <<2>>}
Vals == {<<>>, <<3>>, <<4, 0>>}

-----------------------------------------------------------------------------
(* Bytes, words and buffers.                                               *)

\* The unit in which a mapping exposes a file (syscall.Mmap): bytes past the
\* end of the file read as 0 up to the end of its last page, and touching a
\* page wholly past the end kills the process.
PageSize == 4096

PageCeil(n) == ((n + PageSize - 1) \div PageSize) * PageSize

At(buf, i) == IF i < Len(buf) THEN buf[i + 1] ELSE 0

Slice(buf, lo, hi) == [i \in 1..(hi - lo) |-> At(buf, lo + i - 1)]

\* An access of buf[.. end) through a mapping touches an unbacked page.
Faults(buf, end) == end > PageCeil(Len(buf))

U32(n) == [lo |-> n % 65536, hi |-> n \div 65536]

ToInt(w) == w.lo + 65536 * w.hi

\* ToInt(w) would not fit: w >= 2^31
Wide(w) == w.hi >= 32768

uint32ToBytes(val) ==
    <<val.lo % 256, (val.lo \div 256) % 256, val.hi % 256, (val.hi \div 256) % 256>>

uint32FromBytes(targ, idx) ==
    [lo |-> At(targ, idx) + 256 * At(targ, idx + 1),
     hi |-> At(targ, idx + 2) + 256 * At(targ, idx + 3)]

\* Offsets of the model stay below 2^31: the four high bytes are 0.
uint64ToBytes(val) ==
    <<val % 256, (val \div 256) % 256, (val \div 65536) % 256,
      (val \div 16777216) % 256, 0, 0, 0, 0>>

\* Read back from a snapshot dumpKeys wrote, whose four high bytes are 0.
uint64FromBytes(targ, idx) ==
    At(targ, idx) + 256 * At(targ, idx + 1) + 65536 * At(targ, idx + 2)
    + 16777216 * At(targ, idx + 3)

-----------------------------------------------------------------------------
(* hash/crc32 with the Castagnoli polynomial, as crc32.MakeTable and       *)
(* crc32.Checksum compute it (reflected, table driven).                    *)

RECURSIVE XorN(_, _, _)
XorN(a, b, n) ==
    IF n = 0 THEN 0
    ELSE ((a + b) % 2) + 2 * XorN(a \div 2, b \div 2, n - 1)

\* crc32.Castagnoli = 0x82F63B78, as halves
CastagnoliHi == 33526
CastagnoliLo == 15224

RECURSIVE TableEntry(_, _)
TableEntry(w, n) ==
    IF n = 0 THEN w
    ELSE LET lo == (w.lo \div 2) + 32768 * (w.hi % 2)
             hi == w.hi \div 2
         IN  TableEntry(IF w.lo % 2 = 1
                        THEN [lo |-> XorN(lo, CastagnoliLo, 16),
                              hi |-> XorN(hi, CastagnoliHi, 16)]
                        ELSE [lo |-> lo, hi |-> hi],
                        n - 1)

crcTable == [i \in 0..255 |-> uint32ToBytes(TableEntry([lo |-> i, hi |-> 0], 8))]

xorByte == [a \in 0..255 |-> [b \in 0..255 |-> XorN(a, b, 8)]]

RECURSIVE crcUpdate(_, _, _)
crcUpdate(crc, p, i) ==
    IF i > Len(p) THEN crc
    ELSE LET t == crcTable[xorByte[crc[1]][p[i]]]
         IN  crcUpdate(<<xorByte[t[1]][crc[2]], xorByte[t[2]][crc[3]],
                         xorByte[t[3]][crc[4]], t[4]>>, p, i + 1)

Checksum(p) ==
    LET c == crcUpdate(<<255, 255, 255, 255>>, p, 1)
    IN  [lo |-> (255 - c[1]) + 256 * (255 - c[2]),
         hi |-> (255 - c[3]) + 256 * (255 - c[4])]


-----------------------------------------------------------------------------
(* Documents and the index.                                                *)

newDocument(k, v) ==
    LET body == uint32ToBytes(U32(Len(k))) \o uint32ToBytes(U32(Len(v))) \o k \o v
    IN  uint32ToBytes(Checksum(body)) \o body

getOAL(pos, k, v) == [offset |-> pos + 12 + Len(k), length |-> Len(v)]

getValAtOAL(filebuffer, oal) ==
    Slice(filebuffer, oal.offset, oal.offset + oal.length)

checkDocument(b) == uint32FromBytes(b, 0) = Checksum(SubSeq(b, 5, Len(b)))

\* make(map[string]offsetAndLength), m[k] = oal, delete(m, k)
EmptyMap == [k \in {} |-> 0]

Put(m, k, oal) == [x \in DOMAIN m \cup {k} |-> IF x = k THEN oal ELSE m[x]]

Del(m, k) == [x \in DOMAIN m \ {k} |-> m[x]]

\* The orders in which a range over a map can visit its keys.
Orders(m) ==
    LET n == Cardinality(DOMAIN m)
    IN  {s \in [1..n -> DOMAIN m] : \A i, j \in 1..n : i # j => s[i] # s[j]}

\* Reading the value of oal through the mapping touches an unbacked page.
OALFaults(filebuffer, oal) ==
    oal.length > 0 /\ Faults(filebuffer, oal.offset + oal.length)

-----------------------------------------------------------------------------
(* What the read operations return, as functions of the handle's state.    *)

GetOf(m, filebuffer, k) ==
    IF k \notin DOMAIN m
    THEN [val |-> <<>>, present |-> FALSE]
    ELSE [val |-> getValAtOAL(filebuffer, m[k]), present |-> TRUE]

ContainsOf(m, k) == k \in DOMAIN m

SizeOf(m) == Cardinality(DOMAIN m)

\* DB.Dump: the implicit key -> value map
DumpOf(m, filebuffer) == [k \in DOMAIN m |-> getValAtOAL(filebuffer, m[k])]

-----------------------------------------------------------------------------
(* OpenAndVerifyDB's scan of the file, and populateKeys / dumpKeys.        *)

\* The scan with the test for a tombstone left out.
RECURSIVE verifyLoop_NoTombstone(_, _, _)
verifyLoop_NoTombstone(mmap, m, pos) ==
    IF ~(pos < Len(mmap)) THEN [m |-> m, pos |-> pos, e |-> "nil"]
    ELSE
    LET kw == uint32FromBytes(mmap, pos + 4)
        vw == uint32FromBytes(mmap, pos + 8)
    IN  IF \/ Wide(kw) \/ Wide(vw)
           \/ ToInt(kw) > PageCeil(Len(mmap))
           \/ ToInt(vw) > PageCeil(Len(mmap))
           \/ Faults(mmap, pos + 12 + ToInt(kw) + ToInt(vw))
        THEN [m |-> m, pos |-> pos, e |-> "fault"]
        ELSE
        LET kLen == ToInt(kw)
            vLen == ToInt(vw)
            k    == Slice(mmap, pos + 12, pos + 12 + kLen)
        IN  IF checkDocument(Slice(mmap, pos, pos + 12 + kLen + vLen))
            THEN verifyLoop_NoTombstone(mmap,
                            Put(m, k, [offset |-> pos + 12 + kLen, length |-> vLen]),
                            pos + 12 + kLen + vLen)
            ELSE [m |-> m, pos |-> pos, e |-> "corrupt"]

RECURSIVE verifyLoop(_, _, _)
verifyLoop(mmap, m, pos) ==
    IF ~(pos < Len(mmap)) THEN [m |-> m, pos |-> pos, e |-> "nil"]
    ELSE
    LET kw == uint32FromBytes(mmap, pos + 4)
        vw == uint32FromBytes(mmap, pos + 8)
    IN  IF \/ Wide(kw) \/ Wide(vw)
           \/ ToInt(kw) > PageCeil(Len(mmap))
           \/ ToInt(vw) > PageCeil(Len(mmap))
           \/ Faults(mmap, pos + 12 + ToInt(kw) + ToInt(vw))
        THEN [m |-> m, pos |-> pos, e |-> "fault"]
        ELSE
        LET kLen == ToInt(kw)
            vLen == ToInt(vw)
            k    == Slice(mmap, pos + 12, pos + 12 + kLen)
        IN  IF checkDocument(Slice(mmap, pos, pos + 12 + kLen + vLen))
            THEN verifyLoop(mmap,
                            IF vLen > 0
                            THEN Put(m, k, [offset |-> pos + 12 + kLen, length |-> vLen])
                            ELSE Del(m, k),
                            pos + 12 + kLen + vLen)
            ELSE [m |-> m, pos |-> pos, e |-> "corrupt"]

RECURSIVE dumpLoop(_, _, _)
dumpLoop(m, ord, i) ==
    IF i > Len(ord) THEN <<>>
    ELSE LET k == ord[i]
             v == m[k]
         IN  uint32ToBytes(U32(Len(k))) \o uint32ToBytes(U32(v.length))
             \o uint64ToBytes(v.offset) \o k \o dumpLoop(m, ord, i + 1)

RECURSIVE populateLoop(_, _, _)
populateLoop(mmap, m, pos) ==
    IF ~(pos < Len(mmap)) THEN m
    ELSE LET kLen == ToInt(uint32FromBytes(mmap, pos))
             vLen == ToInt(uint32FromBytes(mmap, pos + 4))
             vPos == uint64FromBytes(mmap, pos + 8)
             k    == Slice(mmap, pos + 16, pos + 16 + kLen)
         IN  populateLoop(mmap, Put(m, k, [offset |-> vPos, length |-> vLen]),
                          pos + 16 + kLen)

\* The copy loop with the write position left where it started.
RECURSIVE consolidateLoop_StalePos(_, _, _, _, _)
consolidateLoop_StalePos(filebuffer, m, ord, i, acc) ==
    IF i > Len(ord) THEN acc
    ELSE LET k      == ord[i]
             v      == getValAtOAL(filebuffer, m[k])
             doc    == newDocument(k, v)
             newOAL == getOAL(acc.pos, k, v)
         IN  consolidateLoop_StalePos(filebuffer, m, ord, i + 1,
                                      [mNew |-> Put(acc.mNew, k, newOAL),
                                       tmp  |-> acc.tmp \o doc,
                                       pos  |-> acc.pos])

RECURSIVE consolidateLoop(_, _, _, _, _)
consolidateLoop(filebuffer, m, ord, i, acc) ==
    IF i > Len(ord) THEN acc
    ELSE LET k      == ord[i]
             v      == getValAtOAL(filebuffer, m[k])
             doc    == newDocument(k, v)
             newOAL == getOAL(acc.pos, k, v)
         IN  consolidateLoop(filebuffer, m, ord, i + 1,
                             [mNew |-> Put(acc.mNew, k, newOAL),
                              tmp  |-> acc.tmp \o doc,
                              pos  |-> acc.pos + Len(doc)])

-----------------------------------------------------------------------------
(* The sequential model: one caller, each call atomic.                     *)

Procs == {"g1", "g2", "g3"}

ProcNo == [g \in Procs |-> CASE g = "g1" -> 1 [] g = "g2" -> 2 [] g = "g3" -> 3]

Absent == [val |-> <<>>, present |-> FALSE]

NoRet == [op |-> "none"]

NoErr == [e |-> "nil", pos |-> 0]

NoHurt == [on |-> FALSE, P |-> 0, m |-> EmptyMap]

NoIO == [step |-> "none", at |-> 0, m |-> EmptyMap, fs |-> 0, f |-> <<>>]

Idle == [at |-> "idle"]

Call(op, k, v) == [op |-> op, k |-> k, v |-> v, prev |-> last.op]

ConcInit ==
    /\ pc = [g \in Procs |-> Idle]
    /\ held = [w |-> "none", r |-> {}]
    /\ wwait = "none"
    /\ rwait = {}
    /\ chan = [buf |-> <<>>, closed |-> FALSE, sent |-> <<>>]
    /\ snap = [on |-> FALSE, call |-> "none", m |-> EmptyMap, f |-> <<>>]
    /\ ilog = <<>>
    /\ flog = <<>>

\* NewDB(location) at a location that holds no file yet
Init ==
    /\ disk = <<>>
    /\ keyfile = <<>>
    /\ h = "open"
    /\ kToPos = EmptyMap
    /\ filledSize = 0
    /\ err = NoErr
    /\ ret = NoRet
    /\ origin = "NewDB"
    /\ last = [op |-> "NewDB", k |-> <<>>, v |-> <<>>, prev |-> "none"]
    /\ hist = [k \in Keys |-> Absent]
    /\ pre = EmptyMap
    /\ hurt = NoHurt
    /\ calls = {}
    /\ nops = 0
    /\ io = NoIO
    /\ ConcInit

\* The process dies of the signal: no snapshot is written, no handle is left.
Killed ==
    /\ h' = "closed"
    /\ err' = [e |-> "fault", pos |-> 0]
    /\ ret' = NoRet
    /\ UNCHANGED <<disk, keyfile, kToPos, filledSize, origin, hist, hurt, io>>

\* d.filehandle.Write at the start of the file, as without O_APPEND on a
\* handle that was just opened.
Write_AtStart(file, p) == p \o SubSeq(file, Len(p) + 1, Len(file))

\* d.filehandle.Write(p): the file is opened O_APPEND
Write(file, p) == file \o p

\* filledSize after Upsert's append
UpsertFilled(fs, doc) == fs + Len(doc)

Upsert(k, v) ==
    /\ h = "open"
    /\ nops < MaxOps
    /\ LET doc == newDocument(k, v)
       IN  /\ kToPos' = Put(kToPos, k, getOAL(filledSize, k, v))
           /\ disk' = Write(disk, doc)
           /\ filledSize' = UpsertFilled(filledSize, doc)
    /\ hist' = [hist EXCEPT ![k] = [val |-> v, present |-> TRUE]]
    /\ last' = Call("Upsert", k, v)
    /\ calls' = calls \cup {"Upsert"}
    /\ ret' = NoRet
    /\ nops' = nops + 1
    /\ UNCHANGED <<keyfile, h, err, origin, pre, hurt, concVars, io>>

\* the index after Remove
\* Remove with the key left in the index.
RemoveIndex_Keep(m, k) == m

RemoveIndex(m, k) == Del(m, k)

\* filledSize after Remove's append: Remove does not touch it
RemoveFilled(fs, doc) == fs

Remove(k) ==
    /\ h = "open"
    /\ nops < MaxOps
    /\ LET doc == newDocument(k, <<>>)
       IN  /\ kToPos' = RemoveIndex(kToPos, k)
           /\ disk' = Write(disk, doc)
           /\ filledSize' = RemoveFilled(filledSize, doc)
    /\ hist' = [hist EXCEPT ![k] = Absent]
    /\ last' = Call("Remove", k, <<>>)
    /\ calls' = calls \cup {"Remove"}
    /\ ret' = NoRet
    /\ nops' = nops + 1
    /\ UNCHANGED <<keyfile, h, err, origin, pre, hurt, concVars, io>>

Consolidate ==
    /\ h = "open"
    /\ nops < MaxOps
    /\ last' = Call("Consolidate", <<>>, <<>>)
    /\ calls' = calls \cup {"Consolidate"}
    /\ pre' = DumpOf(kToPos, disk)
    /\ nops' = nops + 1
    /\ UNCHANGED concVars
    /\ IF \E k \in DOMAIN kToPos : OALFaults(disk, kToPos[k])
       THEN Killed
       ELSE \E ord \in Orders(kToPos) :
              LET acc == consolidateLoop(disk, kToPos, ord, 1,
                                         [mNew |-> EmptyMap, tmp |-> <<>>, pos |-> 0])
              IN  /\ disk' = acc.tmp
                  /\ kToPos' = acc.mNew
                  /\ filledSize' = acc.pos
                  /\ err' = NoErr
                  /\ ret' = NoRet
                  /\ UNCHANGED <<keyfile, h, origin, hist, hurt, io>>

Get(k) ==
    /\ h = "open"
    /\ UNCHANGED <<last, pre, calls, nops, io, concVars>>
    /\ IF k \in DOMAIN kToPos /\ OALFaults(disk, kToPos[k])
       THEN Killed
       ELSE /\ ret' = [op |-> "Get", k |-> k, res |-> GetOf(kToPos, disk, k)]
            /\ UNCHANGED <<disk, keyfile, h, kToPos, filledSize, err, origin,
                           hist, hurt, io>>

Contains(k) ==
    /\ h = "open"
    /\ ret' = [op |-> "Contains", k |-> k, res |-> ContainsOf(kToPos, k)]
    /\ UNCHANGED <<disk, keyfile, h, kToPos, filledSize, err, origin, last,
                   hist, pre, hurt, calls, nops, concVars, io>>

Size ==
    /\ h = "open"
    /\ ret' = [op |-> "Size", res |-> SizeOf(kToPos)]
    /\ UNCHANGED <<disk, keyfile, h, kToPos, filledSize, err, origin, last,
                   hist, pre, hurt, calls, nops, concVars, io>>

\* DB.KeysAndVals: make([][2]string, len(d.kToPos)) holds len(d.kToPos) empty
\* pairs, and the loop appends one pair per key after them
KeysAndValsOf(m, filebuffer, ord) ==
    [i \in 1..Len(ord) |-> <<<<>>, <<>>>>]
    \o [i \in 1..Len(ord) |-> <<ord[i], getValAtOAL(filebuffer, m[ord[i]])>>]

KeysAndVals ==
    /\ h = "open"
    /\ UNCHANGED <<last, pre, calls, nops, io, concVars>>
    /\ IF \E k \in DOMAIN kToPos : OALFaults(disk, kToPos[k])
       THEN Killed
       ELSE /\ \E ord \in Orders(kToPos) :
                  ret' = [op |-> "KeysAndVals",
                          res |-> KeysAndValsOf(kToPos, disk, ord)]
            /\ UNCHANGED <<disk, keyfile, h, kToPos, filledSize, err, origin,
                           hist, hurt>>

\* filehandle.Sync(): what is durable is not part of the model
Sync ==
    /\ h = "open"
    /\ UNCHANGED vars

\* the snapshot file after dumpKeys: opened O_APPEND, never truncated
dumpKeys(old, m, ord) == old \o dumpLoop(m, ord, 1)

Close ==
    /\ h = "open"
    /\ nops < MaxOps
    /\ \E ord \in Orders(kToPos) : keyfile' = dumpKeys(keyfile, kToPos, ord)
    /\ h' = "closed"
    /\ err' = NoErr
    /\ ret' = NoRet
    /\ pre' = DumpOf(kToPos, disk)
    /\ last' = Call("Close", <<>>, <<>>)
    /\ nops' = nops + 1
    /\ UNCHANGED <<disk, kToPos, filledSize, origin, hist, hurt, calls, concVars, io>>

NewDB ==
    /\ h = "closed"
    /\ nops < MaxOps
    /\ disk' = <<>>
    /\ kToPos' = EmptyMap
    /\ filledSize' = 0
    /\ h' = "open"
    /\ err' = NoErr
    /\ ret' = NoRet
    /\ origin' = "NewDB"
    /\ hist' = [k \in Keys |-> Absent]
    /\ hurt' = NoHurt
    /\ last' = Call("NewDB", <<>>, <<>>)
    /\ calls' = {}
    /\ nops' = nops + 1
    /\ UNCHANGED <<keyfile, pre, io, concVars>>

\* populateKeys maps the whole snapshot; syscall.Mmap refuses a length of 0
populateKeys(mmap) ==
    IF Len(mmap) = 0
    THEN [ok |-> FALSE, m |-> EmptyMap]
    ELSE [ok |-> TRUE, m |-> populateLoop(mmap, EmptyMap, 0)]

OpenDB ==
    /\ h = "closed"
    /\ nops < MaxOps
    /\ last' = Call("OpenDB", <<>>, <<>>)
    /\ nops' = nops + 1
    /\ ret' = NoRet
    /\ LET r == populateKeys(keyfile)
       IN  IF r.ok
           THEN /\ kToPos' = r.m
                /\ filledSize' = Len(disk)
                /\ h' = "open"
                /\ err' = NoErr
                /\ origin' = "OpenDB"
                /\ calls' = {}
           ELSE /\ err' = [e |-> "fail", pos |-> 0]
                /\ UNCHANGED <<kToPos, filledSize, h, origin, calls>>
    /\ UNCHANGED <<disk, keyfile, hist, pre, hurt, concVars, io>>

OpenAndVerifyDB ==
    /\ h = "closed"
    /\ nops < MaxOps
    /\ last' = Call("OpenAndVerifyDB", <<>>, <<>>)
    /\ nops' = nops + 1
    /\ ret' = NoRet
    /\ LET r == verifyLoop(disk, EmptyMap, 0)
       IN  IF r.e = "fault"
           THEN /\ err' = [e |-> "fault", pos |-> 0]
                /\ UNCHANGED <<kToPos, filledSize, h, origin, calls>>
           ELSE /\ kToPos' = r.m
                /\ filledSize' = r.pos
                /\ h' = "open"
                /\ err' = [e |-> r.e, pos |-> r.pos]
                /\ origin' = "OpenAndVerifyDB"
                /\ calls' = {}
    /\ UNCHANGED <<disk, keyfile, hist, pre, hurt, concVars, io>>

Next ==
    \/ \E k \in Keys, v \in Vals : Upsert(k, v)
    \/ \E k \in Keys : Remove(k)
    \/ Consolidate
    \/ \E k \in Keys : Get(k)
    \/ \E k \in Keys : Contains(k)
    \/ Size
    \/ KeysAndVals
    \/ Sync
    \/ Close
    \/ NewDB
    \/ OpenDB
    \/ OpenAndVerifyDB

Spec == Init /\ [][Next]_vars

-----------------------------------------------------------------------------
(* The concurrent model: goroutines call into one handle; a call is the    *)
(* sequence of its steps, each step one action.  DB.mutex is a             *)
(* sync.RWMutex: a writer that waits for the readers to leave keeps new    *)
(* readers out, and lets the readers that queued behind it in when it      *)
(* unlocks.                                                                *)

CVals == {<<3>>}

\* The steps of each call, in program order.
\* Upsert without the write lock.
UpsertProg_NoLock == <<"UpsertIndex", "UpsertWrite", "UpsertFilled">>

\* The streaming goroutine releasing the read lock before it closes the channel.
StreamProg_EarlyUnlock == <<"RLock", "Range", "RUnlock", "CloseChan">>

UpsertProg      == <<"Lock", "UpsertIndex", "UpsertWrite", "UpsertFilled", "Unlock">>
RemoveProg      == <<"Lock", "RemoveIndex", "RemoveWrite", "Unlock">>
ConsolidateProg == <<"Lock", "ConsolidateBuild", "ConsolidateRename",
                     "ConsolidateSwap", "Unlock">>
SyncProg        == <<"Lock", "Sync", "Unlock">>
CloseProg       == <<"Lock", "CloseDump", "CloseFile", "Unlock">>
GetProg         == <<"RLock", "GetIndex", "GetValue", "RUnlock">>
ContainsProg    == <<"RLock", "Contains", "RUnlock">>
SizeProg        == <<"RLock", "Size", "RUnlock">>
\* the goroutine KeyChan, ValChan and keyAndValChan start
StreamProg      == <<"RLock", "Range", "CloseChan", "RUnlock">>

Streams == {"KeyChan", "ValChan", "keyAndValChan"}

Prog(call) ==
    CASE call = "Upsert"      -> UpsertProg
      [] call = "Remove"      -> RemoveProg
      [] call = "Consolidate" -> ConsolidateProg
      [] call = "Sync"        -> SyncProg
      [] call = "Close"       -> CloseProg
      [] call = "Get"         -> GetProg
      [] call = "Contains"    -> ContainsProg
      [] call = "Size"        -> SizeProg
      [] call \in Streams     -> StreamProg

\* Steps that change the index, the file or the write position.
ChangeSteps == {"UpsertIndex", "UpsertWrite", "UpsertFilled", "RemoveIndex",
                "RemoveWrite", "ConsolidateRename", "ConsolidateSwap",
                "CloseDump", "CloseFile"}

\* Steps that read them.
ReadSteps == {"GetIndex", "GetValue", "Contains", "Size", "Range", "CloseChan"}

Running(g) == pc[g].at = "run"

\* The step goroutine g takes next.
Step(g) ==
    IF Running(g) /\ pc[g].i <= Len(Prog(pc[g].call))
    THEN Prog(pc[g].call)[pc[g].i]
    ELSE "none"

\* g goes on to its next step, with locals loc; past the last one it returned.
Advance(g, loc) ==
    IF pc[g].i = Len(Prog(pc[g].call))
    THEN Idle
    ELSE [pc[g] EXCEPT !.i = pc[g].i + 1, !.loc = loc]

seqGhost == <<err, ret, origin, last, hist, pre, hurt, calls, io>>

\* History: the mutations that changed the index and whose call has returned.
Returned ==
    {ilog[j].id : j \in {x \in 1..Len(ilog) :
                           \A o \in Procs : Running(o) => pc[o].id # ilog[x].id}}

Start(g, call, k, v) ==
    /\ h = "open"
    /\ pc[g] = Idle
    \* goroutines are interchangeable: the call goes to the first idle one
    /\ \A o \in Procs : pc[o] = Idle => ProcNo[g] <= ProcNo[o]
    /\ nops < MaxCalls
    /\ \A o \in Procs : Running(o) => pc[o].call # "Close"
    \* one channel: one stream in a behaviour
    /\ call \in Streams => ~snap.on /\ \A o \in Procs : Running(o) => pc[o].call \notin Streams
    \* no call may follow Close: none may wait for the lock when Close starts
    /\ call = "Close" =>
          \A o \in Procs : Running(o) => (pc[o].i > 1 /\ o \notin rwait)
    /\ pc' = [pc EXCEPT ![g] = [at |-> "run", call |-> call, i |-> 1, k |-> k,
                                v |-> v, id |-> nops + 1, seen |-> Returned,
                                loc |-> <<>>]]
    /\ nops' = nops + 1
    /\ UNCHANGED <<disk, keyfile, h, kToPos, filledSize, seqGhost, held, wwait,
                   rwait, chan, snap, ilog, flog>>

\* The state the streaming goroutine saw when it got the lock.
Snapshot(gs) ==
    IF \E g \in gs : pc[g].call \in Streams
    THEN [on |-> TRUE, call |-> pc[CHOOSE g \in gs : pc[g].call \in Streams].call,
          m |-> kToPos, f |-> disk]
    ELSE snap

\* Lock() can go on: take the lock, or announce itself to the readers.
CanLock(g) ==
    /\ held.w = "none"
    /\ wwait \in {"none", g}
    /\ held.r = {} \/ wwait = "none"

StepLock(g) ==
    /\ Step(g) = "Lock"
    /\ CanLock(g)
    /\ IF held.r = {}
       THEN /\ held' = [held EXCEPT !.w = g]
            /\ wwait' = "none"
            /\ pc' = [pc EXCEPT ![g] = Advance(g, pc[g].loc)]
       ELSE /\ wwait = "none"
            /\ wwait' = g
            /\ UNCHANGED <<held, pc>>
    /\ UNCHANGED <<seqVars, rwait, chan, snap, ilog, flog>>

\* RLock() can go on: take the lock, or queue behind the writer.
CanRLock(g) == g \notin rwait

StepRLock(g) ==
    /\ Step(g) = "RLock"
    /\ CanRLock(g)
    /\ IF held.w = "none" /\ wwait = "none"
       THEN /\ held' = [held EXCEPT !.r = held.r \cup {g}]
            /\ pc' = [pc EXCEPT ![g] = Advance(g, pc[g].loc)]
            /\ snap' = Snapshot({g})
            /\ UNCHANGED rwait
       ELSE /\ rwait' = rwait \cup {g}
            /\ UNCHANGED <<held, pc, snap>>
    /\ UNCHANGED <<seqVars, wwait, chan, ilog, flog>>

StepUnlock(g) ==
    /\ Step(g) = "Unlock"
    /\ held' = [w |-> "none", r |-> (held.r \cup rwait)]
    /\ rwait' = {}
    /\ pc' = [o \in Procs |->
                IF o = g \/ o \in rwait THEN Advance(o, pc[o].loc) ELSE pc[o]]
    /\ snap' = Snapshot(rwait)
    /\ UNCHANGED <<seqVars, wwait, chan, ilog, flog>>

StepRUnlock(g) ==
    /\ Step(g) = "RUnlock"
    /\ held' = [held EXCEPT !.r = held.r \ {g}]
    /\ pc' = [pc EXCEPT ![g] = Advance(g, pc[g].loc)]
    /\ UNCHANGED <<seqVars, wwait, rwait, chan, snap, ilog, flog>>

Entry(g) == [id |-> pc[g].id, op |-> pc[g].call, k |-> pc[g].k]

StepUpsertIndex(g) ==
    /\ Step(g) = "UpsertIndex"
    /\ kToPos' = Put(kToPos, pc[g].k, getOAL(filledSize, pc[g].k, pc[g].v))
    /\ ilog' = Append(ilog, Entry(g))
    /\ pc' = [pc EXCEPT ![g] = Advance(g, pc[g].loc)]
    /\ UNCHANGED <<disk, keyfile, h, filledSize, seqGhost, nops, held, wwait,
                   rwait, chan, snap, flog>>

StepUpsertWrite(g) ==
    /\ Step(g) = "UpsertWrite"
    /\ disk' = Write(disk, newDocument(pc[g].k, pc[g].v))
    /\ flog' = Append(flog, Entry(g))
    /\ pc' = [pc EXCEPT ![g] = Advance(g, pc[g].loc)]
    /\ UNCHANGED <<keyfile, h, kToPos, filledSize, seqGhost, nops, held, wwait,
                   rwait, chan, snap, ilog>>

StepUpsertFilled(g) ==
    /\ Step(g) = "UpsertFilled"
    /\ filledSize' = UpsertFilled(filledSize, newDocument(pc[g].k, pc[g].v))
    /\ pc' = [pc EXCEPT ![g] = Advance(g, pc[g].loc)]
    /\ UNCHANGED <<disk, keyfile, h, kToPos, seqGhost, nops, held, wwait, rwait,
                   chan, snap, ilog, flog>>

StepRemoveIndex(g) ==
    /\ Step(g) = "RemoveIndex"
    /\ kToPos' = RemoveIndex(kToPos, pc[g].k)
    /\ ilog' = Append(ilog, Entry(g))
    /\ pc' = [pc EXCEPT ![g] = Advance(g, pc[g].loc)]
    /\ UNCHANGED <<disk, keyfile, h, filledSize, seqGhost, nops, held, wwait,
                   rwait, chan, snap, flog>>

StepRemoveWrite(g) ==
    /\ Step(g) = "RemoveWrite"
    /\ disk' = Write(disk, newDocument(pc[g].k, <<>>))
    /\ filledSize' = RemoveFilled(filledSize, newDocument(pc[g].k, <<>>))
    /\ flog' = Append(flog, Entry(g))
    /\ pc' = [pc EXCEPT ![g] = Advance(g, pc[g].loc)]
    /\ UNCHANGED <<keyfile, h, kToPos, seqGhost, nops, held, wwait, rwait, chan,
                   snap, ilog>>

\* the temporary file and mNew, from the index and the mapping as they are
StepConsolidateBuild(g) ==
    /\ Step(g) = "ConsolidateBuild"
    /\ \A k \in DOMAIN kToPos : ~OALFaults(disk, kToPos[k])
    /\ \E ord \in Orders(kToPos) :
          pc' = [pc EXCEPT ![g] =
                    Advance(g, consolidateLoop(disk, kToPos, ord, 1,
                               [mNew |-> EmptyMap, tmp |-> <<>>, pos |-> 0]))]
    /\ UNCHANGED <<seqVars, held, wwait, rwait, chan, snap, ilog, flog>>

\* os.Rename puts the temporary file at d.location
StepConsolidateRename(g) ==
    /\ Step(g) = "ConsolidateRename"
    /\ disk' = pc[g].loc.tmp
    /\ pc' = [pc EXCEPT ![g] = Advance(g, pc[g].loc)]
    /\ UNCHANGED <<keyfile, h, kToPos, filledSize, seqGhost, nops, held, wwait,
                   rwait, chan, snap, ilog, flog>>

StepConsolidateSwap(g) ==
    /\ Step(g) = "ConsolidateSwap"
    /\ kToPos' = pc[g].loc.mNew
    /\ filledSize' = pc[g].loc.pos
    /\ pc' = [pc EXCEPT ![g] = Advance(g, <<>>)]
    /\ UNCHANGED <<disk, keyfile, h, seqGhost, nops, held, wwait, rwait, chan,
                   snap, ilog, flog>>

StepSync(g) ==
    /\ Step(g) = "Sync"
    /\ pc' = [pc EXCEPT ![g] = Advance(g, pc[g].loc)]
    /\ UNCHANGED <<seqVars, held, wwait, rwait, chan, snap, ilog, flog>>

StepCloseDump(g) ==
    /\ Step(g) = "CloseDump"
    /\ \E ord \in Orders(kToPos) : keyfile' = dumpKeys(keyfile, kToPos, ord)
    /\ pc' = [pc EXCEPT ![g] = Advance(g, pc[g].loc)]
    /\ UNCHANGED <<disk, h, kToPos, filledSize, seqGhost, nops, held, wwait,
                   rwait, chan, snap, ilog, flog>>

StepCloseFile(g) ==
    /\ Step(g) = "CloseFile"
    /\ h' = "closed"
    /\ pc' = [pc EXCEPT ![g] = Advance(g, pc[g].loc)]
    /\ UNCHANGED <<disk, keyfile, kToPos, filledSize, seqGhost, nops, held,
                   wwait, rwait, chan, snap, ilog, flog>>

\* oal, present := d.kToPos[string(k)]
StepGetIndex(g) ==
    /\ Step(g) = "GetIndex"
    /\ pc' = [pc EXCEPT ![g] =
                Advance(g, [present |-> ContainsOf(kToPos, pc[g].k),
                            oal     |-> IF pc[g].k \in DOMAIN kToPos
                                        THEN kToPos[pc[g].k]
                                        ELSE [offset |-> 0, length |-> 0],
                            n       |-> Len(ilog)])]
    /\ UNCHANGED <<seqVars, held, wwait, rwait, chan, snap, ilog, flog>>

StepGetValue(g) ==
    /\ Step(g) = "GetValue"
    /\ ~OALFaults(disk, pc[g].loc.oal)
    /\ pc' = [pc EXCEPT ![g] =
                Advance(g, [present |-> pc[g].loc.present,
                            n       |-> pc[g].loc.n,
                            val     |-> IF pc[g].loc.present
                                        THEN getValAtOAL(disk, pc[g].loc.oal)
                                        ELSE <<>>])]
    /\ UNCHANGED <<seqVars, held, wwait, rwait, chan, snap, ilog, flog>>

StepContains(g) ==
    /\ Step(g) = "Contains"
    /\ pc' = [pc EXCEPT ![g] =
                Advance(g, [present |-> ContainsOf(kToPos, pc[g].k),
                            n       |-> Len(ilog)])]
    /\ UNCHANGED <<seqVars, held, wwait, rwait, chan, snap, ilog, flog>>

StepSize(g) ==
    /\ Step(g) = "Size"
    /\ pc' = [pc EXCEPT ![g] = Advance(g, [size |-> SizeOf(kToPos)])]
    /\ UNCHANGED <<seqVars, held, wwait, rwait, chan, snap, ilog, flog>>

\* What the stream sends for key k.
Item(call, m, f, k) ==
    CASE call = "KeyChan"       -> k
      [] call = "ValChan"       -> getValAtOAL(f, m[k])
      [] call = "keyAndValChan" -> <<k, getValAtOAL(f, m[k])>>

\* Keys the range over d.kToPos has not visited yet.
Unvisited(g) == DOMAIN kToPos \ {pc[g].loc[i] : i \in 1..Len(pc[g].loc)}

\* c <- item, for one more key of the range
StepStreamSend(g) ==
    /\ Step(g) = "Range"
    /\ Len(chan.buf) < ChanCap
    /\ \E k \in Unvisited(g) :
          /\ ~OALFaults(disk, kToPos[k])
          /\ chan' = [chan EXCEPT
                        !.buf = Append(@, Item(pc[g].call, kToPos, disk, k)),
                        !.sent = Append(@, [k |-> k,
                                            item |-> Item(pc[g].call, kToPos, disk, k)])]
          /\ pc' = [pc EXCEPT ![g].loc = Append(@, k)]
    /\ UNCHANGED <<seqVars, held, wwait, rwait, snap, ilog, flog>>

\* the range is exhausted
StepStreamEnd(g) ==
    /\ Step(g) = "Range"
    /\ Unvisited(g) = {}
    /\ pc' = [pc EXCEPT ![g] = Advance(g, pc[g].loc)]
    /\ UNCHANGED <<seqVars, held, wwait, rwait, chan, snap, ilog, flog>>

StepStreamClose(g) ==
    /\ Step(g) = "CloseChan"
    /\ chan' = [chan EXCEPT !.closed = TRUE]
    /\ pc' = [pc EXCEPT ![g] = Advance(g, pc[g].loc)]
    /\ UNCHANGED <<seqVars, held, wwait, rwait, snap, ilog, flog>>

\* the consumer takes an item off the channel
Recv ==
    /\ Len(chan.buf) > 0
    /\ chan' = [chan EXCEPT !.buf = Tail(@)]
    /\ UNCHANGED <<seqVars, pc, held, wwait, rwait, snap, ilog, flog>>

NextC ==
    \/ \E g \in Procs, k \in Keys, v \in CVals : Start(g, "Upsert", k, v)
    \/ \E g \in Procs, k \in Keys, c \in {"Remove", "Get", "Contains"} :
          Start(g, c, k, <<>>)
    \/ \E g \in Procs, c \in {"Consolidate", "Sync", "Close", "Size"} \cup Streams :
          Start(g, c, <<>>, <<>>)
    \/ \E g \in Procs : StepLock(g)
    \/ \E g \in Procs : StepRLock(g)
    \/ \E g \in Procs : StepUnlock(g)
    \/ \E g \in Procs : StepRUnlock(g)
    \/ \E g \in Procs : StepUpsertIndex(g)
    \/ \E g \in Procs : StepUpsertWrite(g)
    \/ \E g \in Procs : StepUpsertFilled(g)
    \/ \E g \in Procs : StepRemoveIndex(g)
    \/ \E g \in Procs : StepRemoveWrite(g)
    \/ \E g \in Procs : StepConsolidateBuild(g)
    \/ \E g \in Procs : StepConsolidateRename(g)
    \/ \E g \in Procs : StepConsolidateSwap(g)
    \/ \E g \in Procs : StepSync(g)
    \/ \E g \in Procs : StepCloseDump(g)
    \/ \E g \in Procs : StepCloseFile(g)
    \/ \E g \in Procs : StepGetIndex(g)
    \/ \E g \in Procs : StepGetValue(g)
    \/ \E g \in Procs : StepContains(g)
    \/ \E g \in Procs : StepSize(g)
    \/ \E g \in Procs : StepStreamSend(g)
    \/ \E g \in Procs : StepStreamEnd(g)
    \/ \E g \in Procs : StepStreamClose(g)
    \/ Recv

SpecC == Init /\ [][NextC]_vars

-----------------------------------------------------------------------------
(* A stream and its consumer.  The consumer hands KeyChan, ValChan or      *)
(* keyAndValChan an unbuffered channel, receives until the channel is      *)
(* closed, and calls Get, Contains and Size between receives; another      *)
(* goroutine calls Upsert and Remove.  A send on an unbuffered channel     *)
(* completes when the consumer receives: the consumer is not inside a call *)
(* then.                                                                   *)

Consumer == "g1"
Streamer == "g2"
Mutator  == "g3"

StartL(g, call, k, v) ==
    /\ h = "open"
    /\ pc[g] = Idle
    /\ nops < MaxLive
    \* the behaviour ends when the channel is closed
    /\ ~chan.closed
    /\ \/ g = Mutator /\ call \in {"Upsert", "Remove"} /\ Len(ilog) < MaxMutations
       \/ g = Streamer /\ call \in Streams /\ ~snap.on /\ pc[Consumer] = Idle
       \/ /\ g = Consumer
          /\ call \in {"Get", "Contains", "Size"}
          \* between receives: after the first item
          /\ chan.sent # <<>>
    /\ pc' = [pc EXCEPT ![g] = [at |-> "run", call |-> call, i |-> 1, k |-> k,
                                v |-> v, id |-> nops + 1, seen |-> Returned,
                                loc |-> <<>>]]
    /\ nops' = nops + 1
    /\ UNCHANGED <<disk, keyfile, h, kToPos, filledSize, seqGhost, held, wwait,
                   rwait, chan, snap, ilog, flog>>

\* The consumer is at its receive, and the range has a key left.
CanHandOver(g) == pc[Consumer] = Idle /\ Unvisited(g) # {}

\* c <- item on the unbuffered channel, and the consumer's receive of it
StepStreamHandOver(g) ==
    /\ Step(g) = "Range"
    /\ CanHandOver(g)
    /\ \E k \in Unvisited(g) :
          /\ ~OALFaults(disk, kToPos[k])
          /\ chan' = [chan EXCEPT
                        !.sent = Append(@, [k |-> k,
                                            item |-> Item(pc[g].call, kToPos, disk, k)])]
          /\ pc' = [pc EXCEPT ![g].loc = Append(@, k)]
    /\ UNCHANGED <<seqVars, held, wwait, rwait, snap, ilog, flog>>

\* The steps of the goroutines, without the start of a call.
StepsL ==
    \/ \E g \in Procs : StepLock(g)
    \/ \E g \in Procs : StepRLock(g)
    \/ \E g \in Procs : StepUnlock(g)
    \/ \E g \in Procs : StepRUnlock(g)
    \/ \E g \in Procs : StepUpsertIndex(g)
    \/ \E g \in Procs : StepUpsertWrite(g)
    \/ \E g \in Procs : StepUpsertFilled(g)
    \/ \E g \in Procs : StepRemoveIndex(g)
    \/ \E g \in Procs : StepRemoveWrite(g)
    \/ \E g \in Procs : StepGetIndex(g)
    \/ \E g \in Procs : StepGetValue(g)
    \/ \E g \in Procs : StepContains(g)
    \/ \E g \in Procs : StepSize(g)
    \/ \E g \in Procs : StepStreamHandOver(g)
    \/ \E g \in Procs : StepStreamEnd(g)
    \/ \E g \in Procs : StepStreamClose(g)

NextL ==
    \/ \E k \in Keys, v \in CVals : StartL(Mutator, "Upsert", k, v)
    \/ \E k \in Keys : StartL(Mutator, "Remove", k, <<>>)
    \/ \E c \in Streams : StartL(Streamer, c, <<>>, <<>>)
    \/ \E k \in Keys, c \in {"Get", "Contains"} : StartL(Consumer, c, k, <<>>)
    \/ StartL(Consumer, "Size", <<>>, <<>>)
    \/ StepsL

\* g can take the step it is at.
CanStep(g) ==
    CASE Step(g) = "none"  -> FALSE
      [] Step(g) = "Lock"  -> CanLock(g)
      [] Step(g) = "RLock" -> CanRLock(g)
      [] Step(g) = "Range" -> Unvisited(g) = {} \/ CanHandOver(g)
      [] OTHER             -> TRUE

\* Fair scheduling: a goroutine that can take a step takes one.
SpecLive == Init /\ [][NextL]_vars /\ WF_vars(StepsL)

-----------------------------------------------------------------------------
(* Damage to the tail of the data file while no handle is open (a crash in *)
(* the middle of an append, a bad sector): the environment of              *)
(* OpenAndVerifyDB.  The file is a concatenation of valid documents until  *)
(* it is damaged.                                                          *)

\* Start of the document that holds byte b of an undamaged file.
RECURSIVE DocumentAt(_, _, _)
DocumentAt(file, pos, b) ==
    LET len == 12 + ToInt(uint32FromBytes(file, pos + 4))
                  + ToInt(uint32FromBytes(file, pos + 8))
    IN  IF b < pos + len THEN pos ELSE DocumentAt(file, pos + len, b)

Damaged(n) ==
    LET P == DocumentAt(disk, 0, Len(disk) - n)
    IN  [on |-> TRUE, P |-> P, m |-> verifyLoop(SubSeq(disk, 1, P), EmptyMap, 0).m]

Truncate(n) ==
    /\ h = "closed"
    /\ ~hurt.on
    /\ n <= Len(disk)
    /\ disk' = SubSeq(disk, 1, Len(disk) - n)
    /\ hurt' = Damaged(n)
    /\ last' = Call("Truncate", <<>>, <<>>)
    /\ UNCHANGED <<keyfile, h, kToPos, filledSize, err, ret, origin, hist, pre,
                   calls, nops, io, concVars>>

\* every bit of the last n bytes flipped
Alter(n) ==
    /\ h = "closed"
    /\ ~hurt.on
    /\ n <= Len(disk)
    /\ disk' = [i \in 1..Len(disk) |->
                  IF i > Len(disk) - n THEN 255 - disk[i] ELSE disk[i]]
    /\ hurt' = Damaged(n)
    /\ last' = Call("Alter", <<>>, <<>>)
    /\ UNCHANGED <<keyfile, h, kToPos, filledSize, err, ret, origin, hist, pre,
                   calls, nops, io, concVars>>

NextCrash ==
    \/ Next
    \/ \E n \in 1..MaxCut : Truncate(n)
    \/ \E n \in 1..MaxCut : Alter(n)

SpecCrash == Init /\ [][NextCrash]_vars

-----------------------------------------------------------------------------
(* System calls that fail: the environment of the sequential model, used   *)
(* by SpecIO only.  A failing Write appends nothing; the system fails one   *)
(* step in a behaviour.                                                    *)

\* History of a call in which the system failed a step.
Failed(step) ==
    [step |-> step, at |-> nops + 1, m |-> kToPos, fs |-> filledSize, f |-> disk]

\* Upsert when d.filehandle.Write(doc) fails: the result of Write is dropped
\* and Upsert has no result of its own
UpsertWriteFails(k, v) ==
    /\ h = "open"
    /\ nops < MaxOps
    /\ io = NoIO
    /\ LET doc == newDocument(k, v)
       IN  /\ kToPos' = Put(kToPos, k, getOAL(filledSize, k, v))
           /\ disk' = disk
           /\ filledSize' = UpsertFilled(filledSize, doc)
    /\ io' = Failed("Write")
    /\ err' = NoErr
    /\ last' = Call("Upsert", k, v)
    /\ calls' = calls \cup {"Upsert"}
    /\ ret' = NoRet
    /\ nops' = nops + 1
    /\ UNCHANGED <<keyfile, h, origin, hist, pre, hurt, concVars>>

\* Remove when d.filehandle.Write(doc) fails
RemoveWriteFails(k) ==
    /\ h = "open"
    /\ nops < MaxOps
    /\ io = NoIO
    /\ LET doc == newDocument(k, <<>>)
       IN  /\ kToPos' = RemoveIndex(kToPos, k)
           /\ disk' = disk
           /\ filledSize' = RemoveFilled(filledSize, doc)
    /\ io' = Failed("Write")
    /\ err' = NoErr
    /\ last' = Call("Remove", k, <<>>)
    /\ calls' = calls \cup {"Remove"}
    /\ ret' = NoRet
    /\ nops' = nops + 1
    /\ UNCHANGED <<keyfile, h, origin, hist, pre, hurt, concVars>>

\* The steps of Consolidate that can fail, in program order.
ConsolidateSteps ==
    <<"TempFile", "tmp.Write", "filehandle.Close", "Munmap", "tmp.Close",
      "Rename", "OpenFile", "makeFilebuf">>

StepNo(step) == CHOOSE i \in 1..Len(ConsolidateSteps) : ConsolidateSteps[i] = step

\* What Consolidate returns when step fails: the result of tmp.Write is dropped
ConsolidateResult(step) == IF step = "tmp.Write" THEN "nil" ELSE "fail"

\* The handle Consolidate leaves behind when step fails: "nofile" when
\* d.filehandle is closed and d.filebuffer still mapped, "nomap" when
\* d.filebuffer is unmapped as well
ConsolidateHandle(step) ==
    IF StepNo(step) <= 2 THEN "open"
    ELSE IF StepNo(step) <= 4 THEN "nofile"
    ELSE "nomap"

ConsolidateFails(step) ==
    /\ h = "open"
    /\ nops < MaxOps
    /\ io = NoIO
    /\ \A k \in DOMAIN kToPos : ~OALFaults(disk, kToPos[k])
    /\ step = "tmp.Write" => kToPos # EmptyMap
    /\ io' = Failed(step)
    /\ err' = [e |-> ConsolidateResult(step), pos |-> 0]
    /\ h' = ConsolidateHandle(step)
    /\ last' = Call("Consolidate", <<>>, <<>>)
    /\ calls' = calls \cup {"Consolidate"}
    /\ pre' = DumpOf(kToPos, disk)
    /\ ret' = NoRet
    /\ nops' = nops + 1
    /\ \E ord \in Orders(kToPos) :
          LET start == [mNew |-> EmptyMap, tmp |-> <<>>, pos |-> 0]
              acc   == consolidateLoop(disk, kToPos, ord, 1, start)
              short == consolidateLoop(disk, kToPos,
                                       SubSeq(ord, 1, Len(ord) - 1), 1, start)
          IN  IF step = "tmp.Write"
              THEN \* the last document is missing from the new file
                   /\ disk' = short.tmp
                   /\ kToPos' = acc.mNew
                   /\ filledSize' = acc.pos
              ELSE /\ disk' = IF StepNo(step) >= 7 THEN acc.tmp ELSE disk
                   /\ UNCHANGED <<kToPos, filledSize>>
    /\ UNCHANGED <<keyfile, origin, hist, hurt, concVars>>

\* Get on the handle a failed Consolidate left behind.  Reading an unmapped
\* d.filebuffer kills the process, or yields whatever has been mapped there
\* since (here: zero bytes).
GetBroken(k) ==
    /\ h \in {"nofile", "nomap"}
    /\ UNCHANGED <<last, pre, calls, nops, io, concVars>>
    /\ IF h = "nofile" \/ k \notin DOMAIN kToPos \/ kToPos[k].length = 0
       THEN /\ ret' = [op |-> "Get", k |-> k, res |-> GetOf(kToPos, io.f, k)]
            /\ UNCHANGED <<disk, keyfile, h, kToPos, filledSize, err, origin,
                           hist, hurt>>
       ELSE \/ Killed
            \/ /\ ret' = [op |-> "Get", k |-> k,
                          res |-> [val |-> [i \in 1..kToPos[k].length |-> 0],
                                   present |-> TRUE]]
               /\ UNCHANGED <<disk, keyfile, h, kToPos, filledSize, err, origin,
                              hist, hurt>>

\* What Close returns, from the results of dumpKeys, Munmap and
\* filehandle.Close
CloseResult(eDump, eMunmap, eClose) ==
    IF eMunmap # "nil" THEN eMunmap ELSE eClose

\* Close when dumpKeys fails to open or to write the snapshot
CloseDumpFails(step) ==
    /\ h = "open"
    /\ nops < MaxOps
    /\ io = NoIO
    /\ step = "dumpKeys.Write" => kToPos # EmptyMap
    /\ io' = Failed(step)
    /\ keyfile' = keyfile
    /\ h' = "closed"
    /\ err' = [e |-> CloseResult(IF step = "dumpKeys.OpenFile" THEN "fail" ELSE "nil",
                                 "nil", "nil"),
               pos |-> 0]
    /\ ret' = NoRet
    /\ pre' = DumpOf(kToPos, disk)
    /\ last' = Call("Close", <<>>, <<>>)
    /\ nops' = nops + 1
    /\ UNCHANGED <<disk, kToPos, filledSize, origin, hist, hurt, calls, concVars>>

NextIO ==
    \/ Next
    \/ \E k \in Keys, v \in Vals : UpsertWriteFails(k, v)
    \/ \E k \in Keys : RemoveWriteFails(k)
    \/ \E i \in 1..Len(ConsolidateSteps) : ConsolidateFails(ConsolidateSteps[i])
    \/ \E k \in Keys : GetBroken(k)
    \/ \E step \in {"dumpKeys.OpenFile", "dumpKeys.Write"} : CloseDumpFails(step)

SpecIO == Init /\ [][NextIO]_vars

-----------------------------------------------------------------------------
(* Claims about the sequential model.                                      *)

\* The mapping a handle exposes through Get, for an index m over file f.
Exposed(m, f) == [k \in Keys |-> GetOf(m, f, k)]

\* What Get returns for k in a mapping d (as DumpOf gives it).
InDump(d, k) ==
    IF k \in DOMAIN d THEN [val |-> d[k], present |-> TRUE] ELSE Absent

\* C1: on a handle made by NewDB, a Get(k) issued right after Upsert(k, v)
\* returns (v, true), and a Get(k) issued right after Remove(k) returns
\* present = false.
C1_ReadYourWrites ==
    (h = "open" /\ origin = "NewDB" /\ ret.op = "Get"
        /\ last.op \in {"Upsert", "Remove"} /\ ret.k = last.k)
    => /\ last.op = "Upsert" => ret.res = [val |-> last.v, present |-> TRUE]
       /\ last.op = "Remove" => ~ret.res.present

\* C2: after any sequence of Upsert and Remove calls, Get(k) returns for
\* every key k the value of the latest Upsert(k, _) that no Remove(k)
\* follows, and present = false when there is none.
C2_LastWriterWins ==
    (h = "open" /\ origin = "NewDB" /\ calls \subseteq {"Upsert", "Remove"})
    => \A k \in Keys : GetOf(kToPos, disk, k) = hist[k]

\* C3: Close followed by OpenDB yields a handle whose key-to-value mapping
\* is the mapping just before Close.
C3_CleanRecovery ==
    (last.op = "OpenDB" /\ last.prev = "Close")
    => /\ h = "open"
       /\ err.e = "nil"
       /\ DumpOf(kToPos, disk) = pre

\* C4: after Upsert and Remove calls on a handle, OpenAndVerifyDB on the
\* data file reports no corruption and yields the mapping the writing handle
\* exposed through Get.
C4_CrashRecovery ==
    (h = "open" /\ origin = "NewDB" /\ calls \subseteq {"Upsert", "Remove"})
    => LET r == verifyLoop(disk, EmptyMap, 0)
       IN  /\ r.e = "nil"
           /\ Exposed(r.m, disk) = Exposed(kToPos, disk)

\* C5: when the last N >= 1 bytes of a file of valid documents were cut off
\* or altered, OpenAndVerifyDB returns a handle and an error naming the
\* start P of the first affected document; the handle's write position is P
\* and its index is the replay of the documents before P.  Stated for the
\* damage that leaves part of the first affected document in the file.
C5_CorruptionBoundary ==
    (last.op = "OpenAndVerifyDB" /\ last.prev \in {"Truncate", "Alter"}
        /\ hurt.P < Len(disk))
    => /\ h = "open"
       /\ err = [e |-> "corrupt", pos |-> hurt.P]
       /\ filledSize = hurt.P
       /\ kToPos = hurt.m

\* C6: a successful Consolidate leaves Get(k) unchanged for every key, and
\* Size unchanged.
C6_ConsolidationEquivalence ==
    (last.op = "Consolidate" /\ h = "open")
    => /\ \A k \in Keys : GetOf(kToPos, disk, k) = InDump(pre, k)
       /\ SizeOf(kToPos) = Cardinality(DOMAIN pre)

\* A Consolidate that dropped a tombstone and a superseded document and kept
\* a live key.
C6_Witness ==
    /\ last.op = "Consolidate"
    /\ last.prev = "Remove"
    /\ h = "open"
    /\ SizeOf(kToPos) = 1
    /\ Len(disk) > 0
    /\ nops = 4

\* The documents of a file of valid documents, as (key, value length) pairs.
RECURSIVE Documents(_, _)
Documents(file, pos) ==
    IF ~(pos < Len(file)) THEN <<>>
    ELSE LET kLen == ToInt(uint32FromBytes(file, pos + 4))
             vLen == ToInt(uint32FromBytes(file, pos + 8))
         IN  <<[k |-> Slice(file, pos + 12, pos + 12 + kLen), vLen |-> vLen]>>
             \o Documents(file, pos + 12 + kLen + vLen)

RECURSIVE SumOver(_, _)
SumOver(S, f) ==
    IF S = {} THEN 0
    ELSE LET x == CHOOSE y \in S : TRUE
         IN  f[x] + SumOver(S \ {x}, f)

\* C7: after a successful Consolidate the file holds exactly one document
\* per live key and no tombstone, its length is the sum over the live keys
\* of 12 + |k| + |v|, and the write position is that length.
C7_ConsolidationCompaction ==
    (last.op = "Consolidate" /\ h = "open")
    => LET docs == Documents(disk, 0)
           live == DOMAIN kToPos
       IN  /\ Len(docs) = Cardinality(live)
           /\ \A k \in live : \E i \in 1..Len(docs) : docs[i].k = k
           /\ \A i \in 1..Len(docs) : docs[i].vLen > 0
           /\ Len(disk) = SumOver(live, [k \in live |->
                                12 + Len(k) + Len(getValAtOAL(disk, kToPos[k]))])
           /\ filledSize = Len(disk)

-----------------------------------------------------------------------------
(* Claims about the concurrent model.                                      *)

\* g has made the first but not the last of its changes to the index, the
\* file and the write position.
Mid(g) ==
    /\ Running(g)
    /\ \E a, b \in 1..Len(Prog(pc[g].call)) :
          /\ Prog(pc[g].call)[a] \in ChangeSteps
          /\ Prog(pc[g].call)[b] \in ChangeSteps
          /\ a < pc[g].i
          /\ pc[g].i <= b

\* g is at a step that reads the index or the mapping.
Reading(g) == Step(g) \in ReadSteps

\* Whether the latest mutation of k in log is an Upsert.
RECURSIVE PresentIn(_, _)
PresentIn(log, k) ==
    IF log = <<>> THEN FALSE
    ELSE IF log[Len(log)].k = k THEN log[Len(log)].op = "Upsert"
    ELSE PresentIn(SubSeq(log, 1, Len(log) - 1), k)

IsPrefix(a, b) == Len(a) <= Len(b) /\ a = SubSeq(b, 1, Len(a))

\* C9: no Get, Contains or Size runs while a mutating call is between its
\* first and last change; mutating calls do not overlap; records reach the
\* file in the order the index was updated; and a Get or Contains that
\* starts after an Upsert or Remove returned sees that mutation.
C9_Atomicity ==
    /\ \A g, o \in Procs : g # o => ~(Mid(g) /\ Mid(o))
    /\ \A g, o \in Procs : g # o => ~(Mid(g) /\ Reading(o))
    /\ IsPrefix(flog, ilog)
    /\ (\A g \in Procs : ~Mid(g)) => flog = ilog
    /\ \A g \in Procs :
          (Running(g) /\ pc[g].call \in {"Get", "Contains"} /\ Step(g) = "RUnlock")
          => /\ pc[g].seen \subseteq {ilog[j].id : j \in 1..pc[g].loc.n}
             /\ pc[g].loc.present = PresentIn(SubSeq(ilog, 1, pc[g].loc.n), pc[g].k)

\* A Get that started after an Upsert of its key returned has found the key,
\* while a writer waits for it to leave.
C9_Witness ==
    \E g \in Procs :
        /\ Running(g)
        /\ pc[g].call = "Get"
        /\ Step(g) = "RUnlock"
        /\ pc[g].seen # {}
        /\ pc[g].loc.present
        /\ wwait # "none"

Streaming(g) == Running(g) /\ pc[g].call \in Streams

\* C10: while KeyChan, ValChan or keyAndValChan stream, from the first item
\* to the close of the channel, the read lock is held and neither the index
\* nor the file changes; the items sent are the entries of the index as it
\* was when the lock was taken, each once; the lock is released after the
\* channel is closed.
C10_StreamIsolation ==
    /\ (chan.sent # <<>> /\ ~chan.closed)
          => \E g \in Procs : Streaming(g) /\ g \in held.r
    /\ \A g \in Procs :
          (Streaming(g) /\ Step(g) \in {"Range", "CloseChan", "RUnlock"})
          => /\ kToPos = snap.m
             /\ disk = snap.f
             /\ h = "open"
    /\ \A g \in Procs :
          (Streaming(g) /\ Step(g) \in {"Range", "CloseChan"}) => g \in held.r
    /\ \A g \in Procs :
          (Streaming(g) /\ Step(g) = "RUnlock") => (chan.closed /\ g \in held.r)
    /\ \A g \in Procs : pc[g] = Idle => (g \notin held.r /\ held.w # g)
    /\ \A i, j \in 1..Len(chan.sent) : i # j => chan.sent[i].k # chan.sent[j].k
    /\ \A i \in 1..Len(chan.sent) :
          /\ chan.sent[i].k \in DOMAIN snap.m
          /\ chan.sent[i].item = Item(snap.call, snap.m, snap.f, chan.sent[i].k)
    /\ chan.closed => {chan.sent[i].k : i \in 1..Len(chan.sent)} = DOMAIN snap.m

\* The stream has sent an entry and closed the channel, still holding the
\* read lock, while a writer waits.
C10_Witness ==
    \E g \in Procs :
        /\ Streaming(g)
        /\ Step(g) = "RUnlock"
        /\ chan.closed
        /\ Len(chan.sent) >= 1
        /\ wwait # "none"

-----------------------------------------------------------------------------
(* Claims about failing system calls.                                      *)

\* C11: when the append of the record fails in Upsert or Remove, the call
\* reports the failure, and the index and the write position are as they
\* were before the call.
C11_NoSilentFailure ==
    (io.step = "Write" /\ io.at = nops /\ last.op \in {"Upsert", "Remove"})
    => /\ err.e # "nil"
       /\ kToPos = io.m
       /\ filledSize = io.fs

\* C12: when a step of Consolidate fails, Consolidate returns an error, the
\* handle keeps a file and a mapping, its index and write position go with
\* the file at the location, and Get returns what it returned before.
C12_ConsolidateFailureSafety ==
    (io.at = nops /\ last.op = "Consolidate"
        /\ \E i \in 1..Len(ConsolidateSteps) : io.step = ConsolidateSteps[i])
    => /\ err.e # "nil"
       /\ h = "open"
       /\ disk = io.f => (kToPos = io.m /\ filledSize = io.fs)
       /\ disk # io.f => kToPos # io.m
       /\ \A k \in Keys : GetOf(kToPos, disk, k) = InDump(pre, k)
       /\ ret.op = "Get" => ret.res = InDump(pre, ret.k)

\* C13: when dumpKeys fails to open or write the snapshot, Close returns an
\* error.
C13_CloseSurfacesFailure ==
    (io.at = nops /\ last.op = "Close"
        /\ io.step \in {"dumpKeys.OpenFile", "dumpKeys.Write"})
    => err.e # "nil"

-----------------------------------------------------------------------------
(* Claims about the write position, the log and the replay.                *)

\* C14: on a handle made by NewDB, OpenDB or an OpenAndVerifyDB that found
\* no corruption, after any Upsert, Remove, Consolidate and Sync calls, the
\* write position filledSize is the length of the data file.
C14_WritePosition ==
    (h = "open" /\ err.e = "nil") => filledSize = Len(disk)

\* C15: every Upsert and every Remove appends exactly one document to the
\* data file and leaves the earlier bytes as they were; Get, Contains, Size
\* and Sync leave the file unchanged; only Consolidate and NewDB shorten or
\* replace it.
C15_AppendOnly ==
    [][/\ (nops' = nops + 1 /\ last'.op = "Upsert")
             => disk' = disk \o newDocument(last'.k, last'.v)
       /\ (nops' = nops + 1 /\ last'.op = "Remove")
             => disk' = disk \o newDocument(last'.k, <<>>)
       /\ nops' = nops => disk' = disk
       /\ ~IsPrefix(disk, disk')
             => (nops' = nops + 1 /\ last'.op \in {"Consolidate", "NewDB"})]_vars

\* A Remove of a key that is not in the index has appended a tombstone after
\* the document of another key.
C15_Witness ==
    /\ h = "open"
    /\ last.op = "Remove"
    /\ last.prev = "Upsert"
    /\ DOMAIN kToPos = Keys \ {last.k}
    /\ Len(Documents(disk, 0)) = 2
    /\ Documents(disk, 0)[2] = [k |-> last.k, vLen |-> 0]

\* The documents of a file of valid documents, with the offset each starts at.
RECURSIVE Records(_, _)
Records(file, pos) ==
    IF ~(pos < Len(file)) THEN <<>>
    ELSE LET kLen == ToInt(uint32FromBytes(file, pos + 4))
             vLen == ToInt(uint32FromBytes(file, pos + 8))
         IN  <<[k |-> Slice(file, pos + 12, pos + 12 + kLen), vLen |-> vLen,
                start |-> pos]>>
             \o Records(file, pos + 12 + kLen + vLen)

\* The place of the last record for k in recs, 0 when there is none.
LastFor(recs, k) ==
    LET S == {i \in 1..Len(recs) : recs[i].k = k}
    IN  IF S = {} THEN 0 ELSE CHOOSE i \in S : \A j \in S : j <= i

\* C16: for a data file that is a concatenation of valid documents, the
\* index OpenAndVerifyDB builds maps k to (start + 12 + keyLen, valLen) of
\* the last document for k when its valLen > 0, and has no entry for k when
\* that document is a tombstone or there is none.
C16_MonotonicReplay ==
    LET r    == verifyLoop(disk, EmptyMap, 0)
        recs == Records(disk, 0)
    IN  (h = "closed" \/ last.op = "OpenAndVerifyDB")
        =>
        /\ r.e = "nil"
        /\ r.pos = Len(disk)
        /\ DOMAIN r.m \subseteq Keys
        /\ \A k \in Keys :
              LET i == LastFor(recs, k)
              IN  IF i > 0 /\ recs[i].vLen > 0
                  THEN /\ k \in DOMAIN r.m
                       /\ r.m[k] = [offset |-> recs[i].start + 12 + Len(k),
                                    length |-> recs[i].vLen]
                  ELSE k \notin DOMAIN r.m
        /\ (last.op = "OpenAndVerifyDB" /\ h = "open") => kToPos = r.m

\* OpenAndVerifyDB has replayed a tombstone followed by a document of the
\* same key.
C16_Witness ==
    /\ last.op = "OpenAndVerifyDB"
    /\ h = "open"
    /\ Len(Records(disk, 0)) = 2
    /\ Records(disk, 0)[1].vLen = 0
    /\ Records(disk, 0)[2].vLen > 0
    /\ Records(disk, 0)[1].k = Records(disk, 0)[2].k
    /\ SizeOf(kToPos) = 1

\* C17: no entry of the index has length 0, whatever values were passed to
\* Upsert.
C17_NoZeroLengthEntry ==
    h = "open" => \A k \in DOMAIN kToPos : kToPos[k].length > 0

\* C20: the result of KeysAndVals has exactly Size() elements, one
\* (key, value) pair per key of the index with the value Get returns, and
\* no other element.
C20_KeysAndVals ==
    (h = "open" /\ ret.op = "KeysAndVals")
    => /\ Len(ret.res) = SizeOf(kToPos)
       /\ \A k \in DOMAIN kToPos :
             Cardinality({i \in 1..Len(ret.res) :
                             ret.res[i] = <<k, GetOf(kToPos, disk, k).val>>}) = 1
       /\ \A i \in 1..Len(ret.res) :
             \E k \in DOMAIN kToPos : ret.res[i] = <<k, GetOf(kToPos, disk, k).val>>

\* C18: on a handle OpenAndVerifyDB returned with a corruption report at
\* position P, the next Upsert(k, v) places its document at file offset P,
\* Get(k) then returns (v, true), and a later OpenAndVerifyDB of the file
\* recovers that document.
C18_ProceedAfterCorruption ==
    (h = "open" /\ origin = "OpenAndVerifyDB" /\ err.e = "corrupt"
        /\ last.op = "Upsert" /\ last.prev = "OpenAndVerifyDB")
    => LET doc == newDocument(last.k, last.v)
           r   == verifyLoop(disk, EmptyMap, 0)
       IN  /\ Slice(disk, err.pos, err.pos + Len(doc)) = doc
           /\ GetOf(kToPos, disk, last.k) = [val |-> last.v, present |-> TRUE]
           /\ (ret.op = "Get" /\ ret.k = last.k)
                 => ret.res = [val |-> last.v, present |-> TRUE]
           /\ r.e = "nil"
           /\ last.v # <<>> => GetOf(r.m, disk, last.k) = [val |-> last.v, present |-> TRUE]

-----------------------------------------------------------------------------
(* Claims about a stream and its consumer.                                 *)

=============================================================================
